---- MODULE Spec2Model ----
(***************************************************************************)
(* safe-bytes: byte views of values whose layout contains padding.         *)
(*                                                                         *)
(* A value is modelled by its storage, a sequence of bytes. The types are  *)
(* a fixed table of layouts (size_of and, for a struct, the offset of each *)
(* field in declaration order, as the compiler lays them out on a 64-bit   *)
(* target). get_fields / typed_field!, the derived init_padding, the       *)
(* hand-written Example::init_padding, the array and wrapper adapters and  *)
(* both safe_bytes implementations are operators over that storage.        *)
(***************************************************************************)
EXTENDS Integers, Sequences, FiniteSets, TLC

VARIABLES
  ty,        \* type of the value (element type when the value is a slice)
  isSlice,   \* TRUE: the value is a slice [ty] of len elements
  len,       \* number of elements of the slice (1 for a single value)
  mem,       \* the value's storage, one entry per byte (0-based offset i is mem[i+1])
  before,    \* the storage as it was when the last safe_bytes call started
  view,      \* the byte view the last safe_bytes call returned
  prevView,  \* the byte view the safe_bytes call before that returned
  nth,       \* safe_bytes calls made on this value since it was constructed
  calls,     \* init_padding invocations of the last call: <<[ty, len]>>
  gfLog,     \* element indices the last call invoked get_fields on
  written,   \* byte offsets the last call wrote
  fault,     \* the last call aborted (index / range panic, unwrap on None)
  past,      \* offsets past the end of the storage the last call wrote
  overran,   \* some write_bytes of the last call ran past the end of its buffer
  tieStable  \* how this build's sort_unstable_by_key orders equal keys

vars == <<ty, isSlice, len, mem, before, view, prevView, nth, calls, gfLog,
          written, fault, past, overran, tieStable>>

---------------------------------------------------------------------------
(* Bounds of the model *)

MaxSliceLen == 2
MaxCallsTracked == 2

\* value of a scalar field: choice 1 is the field's ordinal (a = 1, b = 2, c = 3),
\* choice 2 is a value whose low bytes equal the sentinel
Choices == {1, 2}
\* content of the padding bytes of a freshly constructed value
JunkSeeds == {0, 170, 254}
\* addresses a value may live at
BaseAddrs == {0, 4096}

---------------------------------------------------------------------------
(* Layouts *)

Sentinel == 254

Pod(n) == [kind |-> "pod", size |-> n, fields |-> <<>>, elem |-> "unit", count |-> 0]

FieldAt(name, t, off) == [name |-> name, ty |-> t, offset |-> off]

Struct(k, n, fs) == [kind |-> k, size |-> n, fields |-> fs, elem |-> "unit", count |-> 0]

TypeInfo(T) ==
  CASE T = "unit" -> Pod(0)
    [] T = "arr0" -> Pod(0)
    [] T = "u8"   -> Pod(1)
    [] T = "u16"  -> Pod(2)
    [] T = "u32"  -> Pod(4)
    [] T = "u64"  -> Pod(8)
    [] T = "Example" ->
         Struct("manual", 24,
                <<FieldAt("a", "u8", 0), FieldAt("b", "u64", 8), FieldAt("c", "u16", 16)>>)
    [] T = "Example2" ->
         Struct("derive", 24,
                <<FieldAt("a", "u8", 0), FieldAt("b", "u64", 8), FieldAt("c", "u16", 16)>>)
    [] T = "Inner" ->      \* #[derive(Clone, Copy, SafeBytes)] #[repr(C)] { a: u8, b: u64, c: u16 }
         Struct("derive", 24,
                <<FieldAt("a", "u8", 0), FieldAt("b", "u64", 8), FieldAt("c", "u16", 16)>>)
    [] T = "Outer" ->      \* #[repr(C)] { inner: Inner, d: u32 }
         Struct("derive", 32,
                <<FieldAt("inner", "Inner", 0), FieldAt("d", "u32", 24)>>)
    [] T = "Pair" ->       \* #[derive(Clone, Copy, SafeBytes)] #[repr(C)] { x: u8, y: u16 }
         Struct("derive", 4, <<FieldAt("x", "u8", 0), FieldAt("y", "u16", 2)>>)
    [] T = "Rev" ->        \* { a: u8, b: u32 }: the larger alignment is laid out first
         Struct("derive", 8, <<FieldAt("a", "u8", 4), FieldAt("b", "u32", 0)>>)
    [] T = "Tagged" ->     \* { v: u32, z: [u64; 0] }: the zero-sized field sits at offset 0
         Struct("derive", 8, <<FieldAt("v", "u32", 0), FieldAt("z", "arr0", 0)>>)
    [] T = "TailZst" ->    \* #[repr(C)] { a: u8, z: [u32; 0] }
         Struct("derive", 4, <<FieldAt("a", "u8", 0), FieldAt("z", "arr0", 4)>>)
    [] T = "Holder" ->     \* #[repr(C)] { arr: [Pair; 2], t: u8 }
         Struct("derive", 10, <<FieldAt("arr", "PairArr2", 0), FieldAt("t", "u8", 8)>>)
    [] T = "PairArr2" ->   \* [Pair; 2]
         [kind |-> "array", size |-> 8, fields |-> <<>>, elem |-> "Pair", count |-> 2]
    [] T = "MDPair" ->     \* ManuallyDrop<Pair>
         [kind |-> "wrapper", size |-> 4, fields |-> <<>>, elem |-> "Pair", count |-> 1]
    [] T = "WrapU16" ->    \* Wrapping<u16>
         [kind |-> "wrapper", size |-> 2, fields |-> <<>>, elem |-> "u16", count |-> 1]

ValueTypes == {"unit", "u8", "u16", "u32", "u64", "Example", "Example2", "Inner", "Outer",
               "Pair", "Rev", "Tagged", "TailZst", "Holder", "PairArr2", "MDPair",
               "WrapU16"}

SliceElemTypes == {"Pair", "u16", "unit"}

Kind(T) == TypeInfo(T).kind

SizeOf(T) == TypeInfo(T).size

FieldsOf(T) == TypeInfo(T).fields

FieldTypes(T) == [i \in 1..Len(FieldsOf(T)) |-> FieldsOf(T)[i].ty]

Elem(T) == TypeInfo(T).elem

Count(T) == TypeInfo(T).count

---------------------------------------------------------------------------
(* get_fields and typed_field! *)

UnwrapNone == -1

CheckedSub(a, b) == IF a >= b THEN a - b ELSE UnwrapNone

RECURSIVE GetFields(_, _)

TypedField(T, i, base) ==
  LET f == FieldsOf(T)[i]
      base_address == base
      field_size == SizeOf(f.ty)
      field_address == base + f.offset
      field_offset == CheckedSub(field_address, base_address)
      field_sub == GetFields(f.ty, field_address)
  IN  [raw |-> [offset |-> field_offset, size |-> field_size], sub |-> field_sub]

GetFields(T, base) ==
  CASE Kind(T) = "pod" -> <<>>
    [] Kind(T) \in {"derive", "manual"} ->
         [i \in 1..Len(FieldsOf(T)) |-> TypedField(T, i, base)]
    [] Kind(T) = "array" -> GetFields(Elem(T), base)
    [] Kind(T) = "wrapper" -> GetFields(Elem(T), base)

RECURSIVE GetFieldsPanics(_)

\* some typed_field! of the metadata unwrapped a None
GetFieldsPanics(fields) ==
  \E i \in 1..Len(fields) :
     fields[i].raw.offset = UnwrapNone \/ GetFieldsPanics(fields[i].sub)

---------------------------------------------------------------------------
(* init_padding *)

\* the running state of one init_padding call over its buffer
Run(bytes) ==
  [bytes |-> bytes, fault |-> FALSE, calls |-> <<>>, written |-> {},
   past |-> {}, overran |-> FALSE]

\* write_bytes(&mut bytes[offset], 0xfe, count): the index bytes[offset] is
\* checked, the count bytes are then written through the raw pointer, past the
\* end of bytes when offset + count exceeds its length
WriteBytes(st, offset, count) ==
  IF st.fault THEN st
  ELSE IF offset >= Len(st.bytes)
       THEN [st EXCEPT !.fault = TRUE]
       ELSE [st EXCEPT
               !.bytes = [i \in 1..Len(st.bytes) |->
                            IF i - 1 >= offset /\ i - 1 < offset + count
                            THEN Sentinel ELSE st.bytes[i]],
               !.written = @ \cup {w \in offset .. (offset + count - 1) : w < Len(st.bytes)},
               !.past = @ \cup {w \in offset .. (offset + count - 1) : w >= Len(st.bytes)},
               !.overran = @ \/ offset + count > Len(st.bytes)]

\* the order sort_unstable_by_key(|f| f.offset) decides between two descriptors
IsLess(x, y) == IF tieStable THEN x.offset < y.offset ELSE x.offset <= y.offset

RECURSIVE InsertTail(_, _)

InsertTail(sorted, x) ==
  IF Len(sorted) = 0 THEN <<x>>
  ELSE LET last == sorted[Len(sorted)]
       IN  IF IsLess(x, last)
           THEN Append(InsertTail(SubSeq(sorted, 1, Len(sorted) - 1), x), last)
           ELSE Append(sorted, x)

RECURSIVE SortPrefix(_, _)

SortPrefix(raw_fields, n) ==
  IF n = 0 THEN <<>> ELSE InsertTail(SortPrefix(raw_fields, n - 1), raw_fields[n])

SortUnstableByOffset(raw_fields) == SortPrefix(raw_fields, Len(raw_fields))

\* a cursor that stops at the field's offset and forgets the field's size
AdvanceNoSize(field) == field.offset

\* offset = field.offset + field.size
Advance(field) == field.offset + field.size

RECURSIVE GapWalk(_, _, _, _)

GapWalk(raw_fields, i, offset, st) ==
  IF i > Len(raw_fields) THEN [st |-> st, offset |-> offset]
  ELSE LET field == raw_fields[i]
           filled == IF field.offset > offset
                     THEN WriteBytes(st, offset, field.offset - offset)
                     ELSE st
       IN  GapWalk(raw_fields, i + 1, Advance(field), filled)

\* an init_padding that fills the gaps between fields and not the one after the last
TrailingFillSkipped(selfSize, offset, st) == st

TrailingFill(selfSize, offset, st) ==
  IF selfSize > offset THEN WriteBytes(st, offset, selfSize - offset) ELSE st

FillGaps(selfSize, raw_fields, st) ==
  LET walk == GapWalk(SortUnstableByOffset(raw_fields), 1, 0, st)
  IN  TrailingFill(selfSize, walk.offset, walk.st)

RECURSIVE InitPadding(_, _, _)

\* T::init_padding(fields, &mut bytes[start..end])
SubSliceCall(T, fields, st, start, end) ==
  IF st.fault THEN st
  ELSE IF start > end \/ end > Len(st.bytes)
       THEN [st EXCEPT !.fault = TRUE]
       ELSE LET r == InitPadding(T, fields,
                        [bytes |-> SubSeq(st.bytes, start + 1, end), fault |-> FALSE,
                         calls |-> st.calls, written |-> {},
                         past |-> {}, overran |-> st.overran])
                \* writes past the end of the sub-slice land in the enclosing buffer
                landed == {start + w : w \in r.past} \cap (0 .. (Len(st.bytes) - 1))
            IN  [bytes |-> [i \in 1..Len(st.bytes) |->
                              IF i > start /\ i <= end THEN r.bytes[i - start]
                              ELSE IF (i - 1) \in landed THEN Sentinel ELSE st.bytes[i]],
                 fault |-> r.fault,
                 calls |-> r.calls,
                 written |-> st.written \cup {start + w : w \in r.written} \cup landed,
                 past |-> st.past \cup ({start + w : w \in r.past} \ landed),
                 overran |-> r.overran]

\* a field range that ends one byte late
FieldRangeOffByOne(field) ==
  [start |-> field.raw.offset, end |-> field.raw.offset + field.raw.size + 1]

FieldRange(field) == [start |-> field.raw.offset, end |-> field.raw.offset + field.raw.size]

RECURSIVE RecurseFields(_, _, _, _)

RecurseFields(ftypes, fields, i, st) ==
  IF i > Len(fields) THEN st
  ELSE RecurseFields(ftypes, fields, i + 1,
         SubSliceCall(ftypes[i], fields[i].sub, st,
                      FieldRange(fields[i]).start, FieldRange(fields[i]).end))

DeriveInitPadding(selfSize, ftypes, fields, st) ==
  RecurseFields(ftypes, fields, 1,
                FillGaps(selfSize, [i \in 1..Len(fields) |-> fields[i].raw], st))

ExampleInitPadding(fields, st) ==
  LET a_field == fields[1]
      b_field == fields[2]
      c_field == fields[3]
      gaps == FillGaps(SizeOf("Example"), <<a_field.raw, b_field.raw, c_field.raw>>, st)
      a_done == SubSliceCall("u8", a_field.sub, gaps,
                             a_field.raw.offset, a_field.raw.offset + a_field.raw.size)
      b_done == SubSliceCall("u64", b_field.sub, a_done,
                             b_field.raw.offset, b_field.raw.offset + b_field.raw.size)
  IN  SubSliceCall("u16", c_field.sub, b_done,
                   c_field.raw.offset, c_field.raw.offset + a_field.raw.size)

\* an element range that starts at the index, not at index * size_of(E)
ElementRangeNoStride(E, i) == [start |-> i, end |-> i + SizeOf(E)]

ElementRange(E, i) == [start |-> i * SizeOf(E), end |-> i * SizeOf(E) + SizeOf(E)]

RECURSIVE ElementLoop(_, _, _, _, _)

ElementLoop(E, fields, i, n, st) ==
  IF i >= n THEN st
  ELSE ElementLoop(E, fields, i + 1, n,
         SubSliceCall(E, fields, st, ElementRange(E, i).start, ElementRange(E, i).end))

ArrayInitPadding(T, fields, st) == ElementLoop(Elem(T), fields, 0, Count(T), st)

InitPadding(T, fields, st0) ==
  LET st == [st0 EXCEPT !.calls = Append(@, [ty |-> T, len |-> Len(st0.bytes)])]
  IN  CASE Kind(T) = "pod" -> st
        [] Kind(T) = "derive" -> DeriveInitPadding(SizeOf(T), FieldTypes(T), fields, st)
        [] Kind(T) = "manual" -> ExampleInitPadding(fields, st)
        [] Kind(T) = "array" -> ArrayInitPadding(T, fields, st)
        [] Kind(T) = "wrapper" -> InitPadding(Elem(T), fields, st)

---------------------------------------------------------------------------
(* safe_bytes *)

\* from_raw_parts_mut(r as *mut u8, size_of_val(r))
MaybeInitBytesOf(storage, sizeOfVal) == SubSeq(storage, 1, sizeOfVal)

\* from_raw_parts(slice.as_ptr() as *const u8, size_of_val(slice))
AssumeSliceInit(slice) == SubSeq(slice, 1, Len(slice))

Returned(r, log) ==
  [bytes |-> r.bytes, fault |-> r.fault, calls |-> r.calls, written |-> r.written,
   past |-> r.past, overran |-> r.overran,
   gfLog |-> log, view |-> IF r.fault THEN <<>> ELSE AssumeSliceInit(r.bytes)]

Aborted(storage, log) ==
  [bytes |-> storage, fault |-> TRUE, calls |-> <<>>, written |-> {},
   past |-> {}, overran |-> FALSE,
   gfLog |-> log, view |-> <<>>]

\* a safe_bytes that takes its view of the storage before the padding is filled
SafeBytesValueStale(T, base, storage) ==
  LET r == InitPadding(T, GetFields(T, base), Run(MaybeInitBytesOf(storage, SizeOf(T))))
  IN  [bytes |-> r.bytes, fault |-> r.fault, calls |-> r.calls, written |-> r.written,
       past |-> r.past, overran |-> r.overran,
       gfLog |-> <<0>>, view |-> AssumeSliceInit(storage)]

\* impl<T: PaddingBane> SafeBytes for T
SafeBytesValue(T, base, storage) ==
  LET fields == GetFields(T, base)
  IN  IF GetFieldsPanics(fields) THEN Aborted(storage, <<0>>)
      ELSE Returned(InitPadding(T, fields, Run(MaybeInitBytesOf(storage, SizeOf(T)))),
                    <<0>>)

\* a slice safe_bytes without the is_empty test: self[0] of an empty slice panics
SafeBytesSliceNoEmptyCheck(T, n, base, storage) ==
  IF n = 0 THEN Aborted(storage, <<>>)
  ELSE Returned(ElementLoop(T, GetFields(T, base), 0, n,
                            Run(MaybeInitBytesOf(storage, n * SizeOf(T)))),
                <<0>>)

\* impl<T: PaddingBane> SafeBytes for [T]
SafeBytesSlice(T, n, base, storage) ==
  IF n = 0
  THEN [bytes |-> storage, fault |-> FALSE, calls |-> <<>>, written |-> {},
        past |-> {}, overran |-> FALSE,
        gfLog |-> <<>>, view |-> <<>>]
  ELSE LET fields == GetFields(T, base)
       IN  IF GetFieldsPanics(fields) THEN Aborted(storage, <<0>>)
           ELSE Returned(ElementLoop(T, fields, 0, n,
                                     Run(MaybeInitBytesOf(storage, n * SizeOf(T)))),
                         <<0>>)

---------------------------------------------------------------------------
(* Construction of values *)

Shift(leaves, d) ==
  [k \in 1..Len(leaves) |-> [off |-> leaves[k].off + d, size |-> leaves[k].size]]

RECURSIVE Leaves(_)
RECURSIVE FieldLeaves(_, _)
RECURSIVE ElemLeaves(_, _, _)

\* the scalar fields of T with a nonzero size, in declaration order
Leaves(T) ==
  CASE Kind(T) = "pod" -> IF SizeOf(T) = 0 THEN <<>> ELSE <<[off |-> 0, size |-> SizeOf(T)]>>
    [] Kind(T) \in {"derive", "manual"} -> FieldLeaves(T, Len(FieldsOf(T)))
    [] Kind(T) = "array" -> ElemLeaves(Elem(T), 0, Count(T))
    [] Kind(T) = "wrapper" -> Leaves(Elem(T))

FieldLeaves(T, n) ==
  IF n = 0 THEN <<>>
  ELSE FieldLeaves(T, n - 1) \o Shift(Leaves(FieldsOf(T)[n].ty), FieldsOf(T)[n].offset)

ElemLeaves(E, i, n) ==
  IF i >= n THEN <<>>
  ELSE Shift(Leaves(E), i * SizeOf(E)) \o ElemLeaves(E, i + 1, n)

RECURSIVE ToLeBytes(_, _)

ToLeBytes(v, n) == IF n = 0 THEN <<>> ELSE <<v % 256>> \o ToLeBytes(v \div 256, n - 1)

PodValue(k, c, size) == IF c = 1 THEN k ELSE IF size = 1 THEN 254 ELSE 65278

Junk(seed, i) == IF seed = Sentinel THEN Sentinel ELSE (seed + 7 * i) % 256

\* the storage of a value with the given scalar fields, padding left as it was
Storage(leaves, size, choice, seed) ==
  [p \in 1..size |->
     IF \E k \in 1..Len(leaves) : leaves[k].off < p /\ p <= leaves[k].off + leaves[k].size
     THEN LET k == CHOOSE k \in 1..Len(leaves) :
                     leaves[k].off < p /\ p <= leaves[k].off + leaves[k].size
          IN  ToLeBytes(PodValue(k, choice[k], leaves[k].size), leaves[k].size)[p - leaves[k].off]
     ELSE Junk(seed, p - 1)]

StorageLeaves == IF isSlice THEN ElemLeaves(ty, 0, len) ELSE Leaves(ty)

\* offsets of the storage that hold scalar field data
DataBytes ==
  LET leaves == StorageLeaves
  IN  UNION {leaves[k].off .. (leaves[k].off + leaves[k].size - 1) : k \in 1..Len(leaves)}

---------------------------------------------------------------------------
(* The state machine *)

Init ==
  /\ ty = "Example"
  /\ isSlice = FALSE
  /\ len = 1
  /\ \E seed \in JunkSeeds :
        mem = Storage(Leaves("Example"), SizeOf("Example"), <<1, 1, 1>>, seed)
  /\ before = <<>>
  /\ view = <<>>
  /\ prevView = <<>>
  /\ nth = 0
  /\ calls = <<>>
  /\ gfLog = <<>>
  /\ written = {}
  /\ fault = FALSE
  /\ past = {}
  /\ overran = FALSE
  /\ tieStable \in BOOLEAN

Fresh(T, slice, n, storage) ==
  /\ ty' = T
  /\ isSlice' = slice
  /\ len' = n
  /\ mem' = storage
  /\ before' = <<>>
  /\ view' = <<>>
  /\ prevView' = <<>>
  /\ nth' = 0
  /\ calls' = <<>>
  /\ gfLog' = <<>>
  /\ written' = {}
  /\ fault' = FALSE
  /\ past' = {}
  /\ overran' = FALSE
  /\ UNCHANGED tieStable

\* let mut value = T { .. };
New ==
  \E T \in ValueTypes, seed \in JunkSeeds :
    \E choice \in [1..Len(Leaves(T)) -> Choices] :
       Fresh(T, FALSE, 1, Storage(Leaves(T), SizeOf(T), choice, seed))

\* let values: &mut [T] of n elements
NewSlice ==
  \E T \in SliceElemTypes, n \in 0..MaxSliceLen, seed \in JunkSeeds :
    \E choice \in [1..Len(ElemLeaves(T, 0, n)) -> Choices] :
       Fresh(T, TRUE, n, Storage(ElemLeaves(T, 0, n), n * SizeOf(T), choice, seed))

Call(r) ==
  /\ mem' = r.bytes
  /\ before' = mem
  /\ view' = r.view
  /\ prevView' = view
  /\ nth' = nth + 1
  /\ calls' = r.calls
  /\ gfLog' = r.gfLog
  /\ written' = r.written
  /\ fault' = r.fault
  /\ past' = r.past
  /\ overran' = r.overran
  /\ UNCHANGED <<ty, isSlice, len, tieStable>>

\* value.safe_bytes()
SafeBytes ==
  /\ ~isSlice
  /\ ~fault
  /\ nth < MaxCallsTracked
  /\ \E base \in BaseAddrs : Call(SafeBytesValue(ty, base, mem))

\* values.safe_bytes()
SliceSafeBytes ==
  /\ isSlice
  /\ ~fault
  /\ nth < MaxCallsTracked
  /\ \E base \in BaseAddrs : Call(SafeBytesSlice(ty, len, base, mem))

Next == New \/ NewSlice \/ SafeBytes \/ SliceSafeBytes

Spec == Init /\ [][Next]_vars

TypeOK ==
  /\ ty \in ValueTypes \cup SliceElemTypes
  /\ Len(mem) = len * SizeOf(ty)
  /\ \A i \in 1..Len(mem) : mem[i] \in 0..255

---------------------------------------------------------------------------
(* Properties *)

\* the last operation on the value was a safe_bytes call that returned
Returns == nth >= 1 /\ ~fault

Range(p, q) == {i \in p..q : TRUE}

Fe(n) == [i \in 1..n |-> Sentinel]

\* the bytes of the half-open range [start, end) of a buffer
Slice(bytes, start, end) == SubSeq(bytes, start + 1, end)

\* the byte view of a value of type T taken on its own
OwnView(T, storage) == SafeBytesValue(T, 0, storage).view

\* const SAFE_BYTES (little-endian)
SAFE_BYTES == <<1>> \o Fe(7) \o <<2, 0, 0, 0, 0, 0, 0, 0>> \o <<3, 0>> \o Fe(6)

\* C1: data preservation. safe_bytes never overwrites a byte of a scalar field:
\* every such byte of the storage, and of the returned view, is the byte the
\* storage held when the call started.
C1_DataPreserved ==
  Returns => \A p \in DataBytes : mem[p + 1] = before[p + 1] /\ view[p + 1] = before[p + 1]

\* C2: padding coverage. Every byte of the returned view that no scalar field
\* covers equals the sentinel, whatever the storage held before the call.
C2_PaddingCovered ==
  Returns =>
    /\ Len(view) = Len(mem)
    /\ \A p \in (0..(Len(view) - 1)) \ DataBytes : view[p + 1] = Sentinel

C2_Witness ==
  /\ ty = "Outer" /\ nth = 1 /\ ~fault
  /\ before[2] # Sentinel /\ view[2] = Sentinel
  /\ before[19] # Sentinel /\ view[19] = Sentinel
  /\ before[29] # Sentinel /\ view[29] = Sentinel

\* C3: idempotence. A second safe_bytes call on the same value returns the same
\* bytes as the first and leaves every byte of the storage unchanged.
C3_Idempotent == (nth >= 2 /\ ~fault) => (mem = before /\ view = prevView)

C3_Witness ==
  /\ ty = "Holder" /\ nth = 2 /\ ~fault
  /\ written # {} /\ mem = before /\ view = prevView /\ Len(view) = 10

\* C4: nested composition. For every field of a struct, the bytes of the outer
\* view in the field's range equal the view of the field's value taken on its
\* own; the outer struct holding a 24-byte struct of Example's layout and a
\* 4-byte field reproduces the 24-byte pattern and fills the gap after the
\* appended field.
C4_NestedComposition ==
  (Returns /\ ~isSlice /\ Kind(ty) \in {"derive", "manual"}) =>
    /\ \A i \in 1..Len(FieldsOf(ty)) :
         LET f == FieldsOf(ty)[i]
         IN  Slice(view, f.offset, f.offset + SizeOf(f.ty))
               = OwnView(f.ty, Slice(before, f.offset, f.offset + SizeOf(f.ty)))
    /\ ty = "Outer" =>
         /\ Slice(view, 0, 24) = <<before[1]>> \o Fe(7) \o Slice(before, 8, 18) \o Fe(6)
         /\ Slice(view, 24, 32) = Slice(before, 24, 28) \o Fe(4)

\* C5: Example and Example2 (a at 0 size 1, b at 8 size 8, c at 16 size 2, size
\* 24) both return a's byte, seven sentinels, b's eight bytes, c's two bytes, six
\* sentinels; for a = 1, b = 2, c = 3 that is SAFE_BYTES.
C5_ExampleBytes ==
  (nth >= 1 /\ ty \in {"Example", "Example2"} /\ ~isSlice) =>
    /\ ~fault
    /\ view = <<before[1]>> \o Fe(7) \o Slice(before, 8, 16) \o Slice(before, 16, 18) \o Fe(6)
    /\ (\E seed \in JunkSeeds :
          before = Storage(Leaves(ty), SizeOf(ty), <<1, 1, 1>>, seed)) => view = SAFE_BYTES

C5_Witness ==
  /\ ty = "Example" /\ nth = 1 /\ ~isSlice
  /\ before[2] = 7 /\ before[9] = 2 /\ view = SAFE_BYTES

\* the element type and the element count of a sequence value
SeqElem == IF isSlice THEN ty ELSE Elem(ty)

SeqCount == IF isSlice THEN len ELSE Count(ty)

\* C6: sequence handling. The view of a non-empty slice or array of N elements
\* of E has N * size_of(E) bytes, the bytes of element i are the view of element
\* i taken on its own, every byte written is one the element's own init_padding
\* writes, and get_fields is invoked once, on element 0.
C6_SequenceHandling ==
  (Returns /\ ((isSlice /\ len >= 1) \/ (~isSlice /\ Kind(ty) = "array"))) =>
    LET sz == SizeOf(SeqElem)
    IN  /\ Len(view) = SeqCount * sz
        /\ gfLog = <<0>>
        /\ \A i \in 0..(SeqCount - 1) :
             LET own == SafeBytesValue(SeqElem, i * sz, Slice(before, i * sz, (i + 1) * sz))
             IN  /\ Slice(view, i * sz, (i + 1) * sz) = own.view
                 /\ {w - i * sz : w \in written \cap Range(i * sz, (i + 1) * sz - 1)}
                      = own.written

C6_Witness ==
  /\ isSlice /\ ty = "Pair" /\ len = 2 /\ nth = 1 /\ ~fault
  /\ before[2] # Sentinel /\ view[2] = Sentinel
  /\ before[6] # Sentinel /\ view[6] = Sentinel
  /\ written = {1, 5}

\* C7: safe_bytes on an empty slice returns an empty view, invokes neither
\* get_fields nor init_padding and writes no byte.
C7_EmptySlice ==
  (isSlice /\ len = 0 /\ nth >= 1) =>
    /\ ~fault
    /\ view = <<>>
    /\ gfLog = <<>>
    /\ calls = <<>>
    /\ written = {}
    /\ mem = before

C7_Witness == isSlice /\ len = 0 /\ ty = "Pair" /\ nth = 1 /\ view = <<>>

\* C8: correct usage never fails. No safe_bytes call aborts: every index used
\* for a fill, every byte a fill writes and every sub-slice taken for a field or
\* an element lies within the buffer, and no typed_field! unwraps a None.
C8_NeverFails ==
  /\ ~fault
  /\ ~overran
  /\ past = {}
  /\ written \subseteq 0 .. (Len(mem) - 1)
  /\ nth >= 1 => Len(view) = Len(mem)

C8_Witness ==
  /\ ty = "TailZst" /\ nth = 1 /\ ~fault /\ ~overran
  /\ written = {1, 2, 3}
  /\ Len(calls) = 3 /\ calls[3] = [ty |-> "arr0", len |-> 0]

\* C9: every init_padding invocation, top-level or recursive, receives a buffer
\* whose length is size_of of the type it is invoked for.
C9_ExactBuffers ==
  \A k \in 1..Len(calls) : calls[k].len = SizeOf(calls[k].ty)

Permuted(seq, perm) == [i \in 1..Len(seq) |-> seq[perm[i]]]

\* C10: declaration-order independence. For the field descriptors of a struct,
\* the buffer init_padding produces is the same for every order in which the
\* fields are enumerated, zero-sized fields sharing an offset included.
C10_OrderIndependent ==
  (~isSlice /\ Kind(ty) \in {"derive", "manual"}) =>
    LET fields == GetFields(ty, 0)
        raws == [i \in 1..Len(fields) |-> fields[i].raw]
    IN  \A perm \in Permutations(1..Len(fields)) :
          /\ FillGaps(SizeOf(ty), Permuted(raws, perm), Run(mem)).bytes
               = FillGaps(SizeOf(ty), raws, Run(mem)).bytes
          /\ DeriveInitPadding(SizeOf(ty), Permuted(FieldTypes(ty), perm),
                               Permuted(fields, perm), Run(mem)).bytes
               = DeriveInitPadding(SizeOf(ty), FieldTypes(ty), fields, Run(mem)).bytes

====
